---- MODULE Spec2Model ----
(***************************************************************************)
(* Model of the PNG chunk-level reader/writer of src/src/png.rs:           *)
(* PngImage::new (signature check, chunk framing loop, header              *)
(* interpretation) and PngImage::save_image, driven as in src/src/main.rs. *)
(*                                                                         *)
(* A u32 is kept as a record [hi, lo] of two 16-bit halves, so that every  *)
(* 32-bit value (e.g. the CRC 0x9A768270) is representable.                *)
(***************************************************************************)
EXTENDS Integers, Sequences, FiniteSets, TLC

VARIABLES
    buf,          \* the bytes read_image_data returned (the Cursor's Vec<u8>)
    pos,          \* the Cursor's position
    pc,           \* where the program is
    chunk_size,   \* locals of the loop body of PngImage::new
    chunk_type,
    chunk_data,
    chunk_crc,
    chunks,       \* Vec<PNGChunk>
    png_info,     \* the PNGInfo get_png_info returned (or NoInfo)
    result,       \* what PngImage::new returned
    file          \* the bytes save_image wrote (or NoFile)

vars == <<buf, pos, pc, chunk_size, chunk_type, chunk_data, chunk_crc,
          chunks, png_info, result, file>>

----------------------------------------------------------------------------
(* Bounds of the model *)

\* the loop of PngImage::new is followed for at most this many iterations
MaxIter == 10

\* valid containers carry at most this many chunks between IHDR and IEND
MaxMid == 2

----------------------------------------------------------------------------
(* Bytes and 32-bit words *)

Min(a, b) == IF a < b THEN a ELSE b

Max(a, b) == IF a > b THEN a ELSE b

Zeros(n) == [i \in 1..n |-> 0]

PNG_SIGNATURE == <<137, 80, 78, 71, 13, 10, 26, 10>>

\* u32::from_be_bytes: the first byte is the most significant
from_be_bytes(b) == [hi |-> b[1] * 256 + b[2], lo |-> b[3] * 256 + b[4]]

\* u32::to_le_bytes: the least significant byte first
to_le_bytes(v) == <<v.lo % 256, v.lo \div 256, v.hi % 256, v.hi \div 256>>

\* u32::to_be_bytes
to_be_bytes(v) == <<v.hi \div 256, v.hi % 256, v.lo \div 256, v.lo % 256>>

\* `size as usize`
as_usize(v) == v.hi * 65536 + v.lo

\* <Cursor<_> as Read>::read: copies min(len(out), remaining) bytes into the
\* front of out, leaves the rest of out as it was, advances the position by
\* the number of bytes copied, and never fails.
read(data, p, out) ==
    LET n == Min(Len(out), Max(0, Len(data) - p))
    IN  [is_err |-> FALSE,
         n      |-> n,
         buf    |-> [i \in 1..Len(out) |-> IF i <= n THEN data[p + i] ELSE out[i]],
         pos    |-> p + n]

InRange(b, i, lo, hi) == i <= Len(b) /\ b[i] >= lo /\ b[i] <= hi

RECURSIVE Utf8Valid(_, _)
\* the validity check of String::from_utf8, from index i on
Utf8Valid(b, i) ==
    IF i > Len(b) THEN TRUE
    ELSE LET c == b[i] IN
         IF c < 128 THEN Utf8Valid(b, i + 1)
         ELSE IF c >= 194 /\ c <= 223
              THEN InRange(b, i + 1, 128, 191) /\ Utf8Valid(b, i + 2)
         ELSE IF c >= 224 /\ c <= 239
              THEN /\ InRange(b, i + 1, IF c = 224 THEN 160 ELSE 128,
                                        IF c = 237 THEN 159 ELSE 191)
                   /\ InRange(b, i + 2, 128, 191)
                   /\ Utf8Valid(b, i + 3)
         ELSE IF c >= 240 /\ c <= 244
              THEN /\ InRange(b, i + 1, IF c = 240 THEN 144 ELSE 128,
                                        IF c = 244 THEN 143 ELSE 191)
                   /\ InRange(b, i + 2, 128, 191)
                   /\ InRange(b, i + 3, 128, 191)
                   /\ Utf8Valid(b, i + 4)
         ELSE FALSE

\* as from_utf8, but taking ASCII bytes only
from_utf8_ascii_only(b) == [is_err |-> \E i \in 1..Len(b) : b[i] >= 128, s |-> b]

\* String::from_utf8: the String owns the same bytes when they are valid UTF-8
from_utf8(b) == [is_err |-> ~Utf8Valid(b, 1), s |-> b]

\* String::as_bytes
as_bytes(s) == s

IHDR == <<73, 72, 68, 82>>

IEND == <<73, 69, 78, 68>>

IDAT == <<73, 68, 65, 84>>

tEXt == <<116, 69, 88, 116>>

----------------------------------------------------------------------------
(* The functions of impl PngImage *)

\* as check_file_type, but comparing only the bytes that were read
check_file_type_prefix(data) ==
    LET r == read(data, 0, Zeros(8))
    IN  [is_err |-> r.is_err \/ SubSeq(r.buf, 1, r.n) # SubSeq(PNG_SIGNATURE, 1, r.n),
         pos |-> r.pos]

check_file_type(data) ==
    LET r == read(data, 0, Zeros(8))
    IN  [is_err |-> r.is_err \/ r.buf # PNG_SIGNATURE, pos |-> r.pos]

get_chunk_size(data, p) ==
    LET r == read(data, p, Zeros(4))
    IN  [is_err |-> r.is_err, err |-> "InvalidChunkSize",
         val |-> from_be_bytes(r.buf), pos |-> r.pos]

get_chunk_type(data, p) ==
    LET r == read(data, p, Zeros(4))
        s == from_utf8(r.buf)
    IN  [is_err |-> r.is_err \/ s.is_err, err |-> "InvalidChunkType",
         val |-> s.s, pos |-> r.pos]

get_chunk_data(data, p, size) ==
    LET r == read(data, p, Zeros(as_usize(size)))
    IN  [is_err |-> r.is_err, err |-> "InvalidChunk",
         val |-> r.buf, pos |-> r.pos]

\* as get_chunk_crc, but taking the trailer least significant byte first
get_chunk_crc_le(data, p) ==
    LET r == read(data, p, Zeros(4))
    IN  [is_err |-> r.is_err, err |-> "InvalidChunkCrc",
         val |-> from_be_bytes(<<r.buf[4], r.buf[3], r.buf[2], r.buf[1]>>),
         pos |-> r.pos]

get_chunk_crc(data, p) ==
    LET r == read(data, p, Zeros(4))
    IN  [is_err |-> r.is_err, err |-> "InvalidChunkCrc",
         val |-> from_be_bytes(r.buf), pos |-> r.pos]

PNGChunk(size, type, data, crc) ==
    [size |-> size, chunk_type |-> type, data |-> data, crc |-> crc]

NoInfo == [none |-> TRUE]

\* as get_png_info, but without the check of the chunk's type
get_png_info_any_type(header_chunk) ==
    LET res1 == read(header_chunk.data, 0, Zeros(4))
        res2 == read(header_chunk.data, res1.pos, Zeros(4))
    IN  [is_err |-> FALSE, err |-> "",
         val |-> [width              |-> from_be_bytes(res1.buf),
                  height             |-> from_be_bytes(res2.buf),
                  bit_depth          |-> 0,
                  color_type         |-> 0,
                  compression_method |-> 0,
                  filter_method      |-> 0,
                  interlace_method   |-> 0]]

get_png_info(header_chunk) ==
    IF header_chunk.chunk_type # IHDR
    THEN [is_err |-> TRUE, err |-> "InvalidPngInfo", val |-> NoInfo]
    ELSE LET res1 == read(header_chunk.data, 0, Zeros(4))
             res2 == read(header_chunk.data, res1.pos, Zeros(4))
         IN  IF res1.is_err \/ res2.is_err
             THEN [is_err |-> TRUE, err |-> "InvalidPngInfo", val |-> NoInfo]
             ELSE [is_err |-> FALSE, err |-> "",
                   val |-> [width              |-> from_be_bytes(res1.buf),
                            height             |-> from_be_bytes(res2.buf),
                            bit_depth          |-> 0,
                            color_type         |-> 0,
                            compression_method |-> 0,
                            filter_method      |-> 0,
                            interlace_method   |-> 0]]

RECURSIVE ChunkBytes(_, _)
\* the body of the for loop of save_image, for chunks i..
ChunkBytes(cs, i) ==
    IF i > Len(cs) THEN <<>>
    ELSE to_be_bytes(cs[i].size) \o as_bytes(cs[i].chunk_type) \o cs[i].data
         \o to_be_bytes(cs[i].crc) \o ChunkBytes(cs, i + 1)

\* as save_image, but without the signature in front
save_image_no_signature(cs) == ChunkBytes(cs, 1)

save_image(cs) == PNG_SIGNATURE \o ChunkBytes(cs, 1)

----------------------------------------------------------------------------
(* CRC-32 of the container format (reflected, polynomial 0xEDB88320) *)

RECURSIVE Xor(_, _)
\* bitwise exclusive or of two naturals
Xor(a, b) ==
    IF a = 0 THEN b
    ELSE IF b = 0 THEN a
    ELSE ((a + b) % 2) + 2 * Xor(a \div 2, b \div 2)

XorU32(v, w) == [hi |-> Xor(v.hi, w.hi), lo |-> Xor(v.lo, w.lo)]

CrcPoly == [hi |-> 60856, lo |-> 33568]

AllOnes == [hi |-> 65535, lo |-> 65535]

ShiftRight1(v) == [hi |-> v.hi \div 2, lo |-> (v.lo \div 2) + (v.hi % 2) * 32768]

RECURSIVE CrcBits(_, _)
\* k rounds of: shift right, and xor the polynomial in when a 1 fell out
CrcBits(v, k) ==
    IF k = 0 THEN v
    ELSE CrcBits(IF v.lo % 2 = 1 THEN XorU32(ShiftRight1(v), CrcPoly)
                 ELSE ShiftRight1(v), k - 1)

\* the 256-entry lookup table: the CRC register after 8 rounds on one byte
CrcTable == [n \in 0..255 |-> CrcBits([hi |-> 0, lo |-> n], 8)]

ShiftRight8(v) == [hi |-> v.hi \div 256, lo |-> (v.lo \div 256) + (v.hi % 256) * 256]

\* one table-driven step: the CRC register v after the byte x
CrcByte(v, x) == XorU32(CrcTable[Xor(v.lo % 256, x)], ShiftRight8(v))

IsU32(v) == v.hi >= 0 /\ v.hi <= 65535 /\ v.lo >= 0 /\ v.lo <= 65535

RECURSIVE CrcUpdate(_, _, _)
\* the CRC register v after the bytes b[i..]; the register is looked at in
\* every step, which keeps the evaluation of a long fold shallow
CrcUpdate(v, b, i) ==
    IF i > Len(b) \/ ~IsU32(v) THEN v
    ELSE CrcUpdate(CrcByte(v, b[i]), b, i + 1)

CRC32(b) == XorU32(CrcUpdate(AllOnes, b, 1), AllOnes)

----------------------------------------------------------------------------
(* The files the program is run on *)

U32(n) == [hi |-> n \div 65536, lo |-> n % 65536]

\* one chunk record of a stream: declared length, type tag, payload, trailer
Rec(t, p) == [len |-> U32(Len(p)), type |-> t, payload |-> p, crc |-> CRC32(t \o p)]

\* a 32-bit word as the format writes it: most significant byte first
BigEndian4(v) == <<v.hi \div 256, v.hi % 256, v.lo \div 256, v.lo % 256>>

EncodeRec(r) == BigEndian4(r.len) \o r.type \o r.payload \o BigEndian4(r.crc)

RECURSIVE EncodeRecs(_, _)
EncodeRecs(rs, i) ==
    IF i > Len(rs) THEN <<>> ELSE EncodeRec(rs[i]) \o EncodeRecs(rs, i + 1)

\* the container byte format: signature, then the chunk records
Encode(rs) == PNG_SIGNATURE \o EncodeRecs(rs, 1)

HeaderPayload(w, h, bd, ct, cm, fm, im) ==
    BigEndian4(w) \o BigEndian4(h) \o <<bd, ct, cm, fm, im>>

\* 13-byte header payloads with every field in range
ValidHeaders ==
    { HeaderPayload(U32(100), U32(50), 8, 2, 0, 0, 0),
      HeaderPayload([hi |-> 258, lo |-> 772], U32(1), 16, 6, 0, 0, 1) }

MidRecs == { Rec(IDAT, <<120, 1, 255>>), Rec(tEXt, <<>>) }

MidLists == UNION { [1..n -> MidRecs] : n \in 0..MaxMid }

IendRec == Rec(IEND, <<>>)

\* signature, IHDR first, other chunks, exactly one IEND last, nothing after
ValidRecordLists ==
    { <<Rec(IHDR, h)>> \o m \o <<IendRec>> : h \in ValidHeaders, m \in MidLists }

ValidContainers == { Encode(rs) : rs \in ValidRecordLists }

\* every proper prefix of a valid container (the empty file included)
Truncated ==
    UNION { { SubSeq(B, 1, k) : k \in 0..(Len(B) - 1) } : B \in ValidContainers }

\* rs with bit k of byte j of the payload of record i changed, crc kept
FlipPayloadBit(rs, i, j, k) ==
    [rs EXCEPT ![i].payload[j] = Xor(@, 2 ^ k)]

BitFlipped ==
    UNION { UNION { { Encode(FlipPayloadBit(rs, i, j, k)) :
                        j \in 1..Len(rs[i].payload), k \in 0..7 } :
                    i \in 1..Len(rs) } :
            rs \in ValidRecordLists }

\* a valid container with one of its first 8 bytes changed
BadSignature ==
    UNION { { [B EXCEPT ![j] = v] : j \in 1..8, v \in {0, 255} } :
            B \in ValidContainers }

\* header payloads that are not 13 bytes long, or have a field out of range
BadHeaders ==
    { <<>>, <<0, 0, 0, 100>>, SubSeq(HeaderPayload(U32(100), U32(50), 8, 2, 0, 0, 0), 1, 12),
      HeaderPayload(U32(100), U32(50), 8, 2, 0, 0, 0) \o <<0>>,
      HeaderPayload(U32(0), U32(50), 8, 2, 0, 0, 0),
      HeaderPayload(U32(100), U32(0), 8, 2, 0, 0, 0),
      HeaderPayload(U32(100), U32(50), 8, 2, 1, 0, 0),
      HeaderPayload(U32(100), U32(50), 8, 2, 0, 1, 0),
      HeaderPayload(U32(100), U32(50), 8, 2, 0, 0, 2),
      HeaderPayload(U32(100), U32(50), 3, 2, 0, 0, 0),
      HeaderPayload(U32(100), U32(50), 16, 3, 0, 0, 0),
      HeaderPayload(U32(100), U32(50), 8, 5, 0, 0, 0) }

\* type tags other than "IHDR" and "IEND" that are text: NULs, control
\* characters, and 2-, 3- and 4-byte encoded characters
DecodableOddTags ==
    { <<0, 0, 0, 0>>, <<127, 1, 32, 10>>, <<195, 169, 65, 66>>,
      <<226, 130, 172, 65>>, <<240, 159, 152, 128>> }

\* 4 bytes that are no text: a byte that starts nothing, a character cut
\* short, an overlong form, a surrogate, a stray continuation byte, a code
\* point past the last one
UndecodableTags ==
    { <<255, 254, 65, 66>>, <<73, 69, 78, 195>>, <<192, 128, 65, 66>>,
      <<237, 160, 128, 65>>, <<128, 73, 72, 68>>, <<244, 144, 128, 128>> }

OddTags == DecodableOddTags \cup UndecodableTags

\* streams that frame chunk by chunk but break a rule of the format
Malformed ==
    { Encode(<<Rec(IHDR, h), IendRec>>) : h \in BadHeaders }
    \cup { Encode(<<Rec(t, h), IendRec>>) : t \in OddTags \cup {IDAT}, h \in ValidHeaders }
    \cup { Encode(<<Rec(IHDR, h), Rec(t, <<7>>), IendRec>>) : t \in OddTags, h \in ValidHeaders }
    \cup { Encode(<<Rec(t, <<7>>), Rec(u, <<>>), IendRec>>) :
             t \in {IDAT, <<0, 0, 0, 0>>}, u \in UndecodableTags }
    \cup { Encode(<<IendRec>>), Encode(<<IendRec, IendRec>>), Encode(<<>>) }

\* a header chunk, then a record that declares more payload bytes than the
\* file has left after its type tag
Oversized ==
    { Encode(<<Rec(IHDR, h)>>) \o BigEndian4(U32(n)) \o t \o p :
        h \in ValidHeaders, n \in {5, 300}, t \in {IDAT, IEND},
        p \in {<<>>, <<9, 9>>} }

\* a valid container followed by more bytes
Trailing ==
    { B \o X : B \in ValidContainers,
               X \in { <<0>>, <<1, 2, 3, 4, 5>>, EncodeRec(IendRec) } }

Inputs ==
    ValidContainers \cup Truncated \cup BitFlipped \cup BadSignature
    \cup Malformed \cup Trailing \cup Oversized

----------------------------------------------------------------------------
(* The program: main calls PngImage::new, then save_image on its result *)

NoFile == [written |-> FALSE, bytes |-> <<>>]

Init ==
    /\ buf \in Inputs
    /\ pos = 0
    /\ pc = "check_file_type"
    /\ chunk_size = U32(0)
    /\ chunk_type = <<>>
    /\ chunk_data = <<>>
    /\ chunk_crc = U32(0)
    /\ chunks = <<>>
    /\ png_info = NoInfo
    /\ result = "Pending"
    /\ file = NoFile

\* return Err(e) from PngImage::new
Fail(e) == pc' = "returned" /\ result' = e

CheckFileType ==
    /\ pc = "check_file_type"
    /\ LET r == check_file_type(buf)
       IN  /\ pos' = r.pos
           /\ IF r.is_err
              THEN Fail("InvalidFileType")
              ELSE pc' = "get_chunk_size" /\ UNCHANGED result
    /\ UNCHANGED <<buf, chunk_size, chunk_type, chunk_data, chunk_crc, chunks,
                   png_info, file>>

GetChunkSize ==
    /\ pc = "get_chunk_size"
    /\ Len(chunks) < MaxIter
    /\ LET r == get_chunk_size(buf, pos)
       IN  /\ pos' = r.pos
           /\ IF r.is_err
              THEN Fail(r.err) /\ UNCHANGED chunk_size
              ELSE pc' = "get_chunk_type" /\ chunk_size' = r.val /\ UNCHANGED result
    /\ UNCHANGED <<buf, chunk_type, chunk_data, chunk_crc, chunks, png_info, file>>

GetChunkType ==
    /\ pc = "get_chunk_type"
    /\ LET r == get_chunk_type(buf, pos)
       IN  /\ pos' = r.pos
           /\ IF r.is_err
              THEN Fail(r.err) /\ UNCHANGED chunk_type
              ELSE pc' = "get_chunk_data" /\ chunk_type' = r.val /\ UNCHANGED result
    /\ UNCHANGED <<buf, chunk_size, chunk_data, chunk_crc, chunks, png_info, file>>

GetChunkData ==
    /\ pc = "get_chunk_data"
    /\ LET r == get_chunk_data(buf, pos, chunk_size)
       IN  /\ pos' = r.pos
           /\ IF r.is_err
              THEN Fail(r.err) /\ UNCHANGED chunk_data
              ELSE pc' = "get_chunk_crc" /\ chunk_data' = r.val /\ UNCHANGED result
    /\ UNCHANGED <<buf, chunk_size, chunk_type, chunk_crc, chunks, png_info, file>>

GetChunkCrc ==
    /\ pc = "get_chunk_crc"
    /\ LET r == get_chunk_crc(buf, pos)
       IN  /\ pos' = r.pos
           /\ IF r.is_err
              THEN Fail(r.err) /\ UNCHANGED chunk_crc
              ELSE pc' = "push_chunk" /\ chunk_crc' = r.val /\ UNCHANGED result
    /\ UNCHANGED <<buf, chunk_size, chunk_type, chunk_data, chunks, png_info, file>>

\* as PushChunk, but leaving the loop when the cursor is at the end of the
\* buffer instead of on "IEND"
PushChunkUntilEnd ==
    /\ pc = "push_chunk"
    /\ LET chunk == PNGChunk(chunk_size, chunk_type, chunk_data, chunk_crc)
       IN  /\ chunks' = Append(chunks, chunk)
           /\ pc' = IF pos >= Len(buf) THEN "get_png_info" ELSE "get_chunk_size"
    /\ UNCHANGED <<buf, pos, chunk_size, chunk_type, chunk_data, chunk_crc,
                   png_info, result, file>>

\* lines 89-100: build the chunk, leave the loop on "IEND", push the chunk
PushChunk ==
    /\ pc = "push_chunk"
    /\ LET chunk == PNGChunk(chunk_size, chunk_type, chunk_data, chunk_crc)
       IN  /\ chunks' = Append(chunks, chunk)
           /\ pc' = IF chunk.chunk_type = IEND THEN "get_png_info" ELSE "get_chunk_size"
    /\ UNCHANGED <<buf, pos, chunk_size, chunk_type, chunk_data, chunk_crc,
                   png_info, result, file>>

\* lines 103-109: interpret chunks[0], then return Ok(PngImage { chunks })
GetPngInfo ==
    /\ pc = "get_png_info"
    /\ LET r == get_png_info(chunks[1])
       IN  /\ png_info' = r.val
           /\ pc' = "returned"
           /\ result' = IF r.is_err THEN r.err ELSE "Ok"
    /\ UNCHANGED <<buf, pos, chunk_size, chunk_type, chunk_data, chunk_crc,
                   chunks, file>>

\* main: img.save_image(..) on the image PngImage::new returned
SaveImage ==
    /\ pc = "returned"
    /\ result = "Ok"
    /\ file' = [written |-> TRUE, bytes |-> save_image(chunks)]
    /\ pc' = "saved"
    /\ UNCHANGED <<buf, pos, chunk_size, chunk_type, chunk_data, chunk_crc,
                   chunks, png_info, result>>

Next ==
    \/ CheckFileType
    \/ GetChunkSize
    \/ GetChunkType
    \/ GetChunkData
    \/ GetChunkCrc
    \/ PushChunk
    \/ GetPngInfo
    \/ SaveImage

Spec == Init /\ [][Next]_vars

----------------------------------------------------------------------------
(* Properties *)

Returned == pc \in {"returned", "saved"}

\* the chunk list a stream of records rs frames to
ChunksOf(rs) ==
    [i \in 1..Len(rs) |->
        PNGChunk(rs[i].len, rs[i].type, rs[i].payload, rs[i].crc)]

\* C1: round-trip identity: on a valid container PngImage::new succeeds and
\* the bytes save_image writes for its result equal the input byte for byte.
C1_RoundTrip ==
    buf \in ValidContainers =>
        /\ (Returned => result = "Ok")
        /\ (pc = "saved" => file = [written |-> TRUE, bytes |-> buf])

C1_Witness ==
    /\ pc = "saved"
    /\ buf \in ValidContainers
    /\ Len(chunks) >= 4
    /\ file.bytes = buf

\* the truncations of a valid container that keep the whole signature
TruncatedAfterSignature == { b \in Truncated : Len(b) >= 8 }

TruncationErrors ==
    {"InvalidChunkSize", "InvalidChunkType", "InvalidChunk", "InvalidChunkCrc"}

\* C2: truncation detection: parsing a valid container cut at any offset k,
\* 8 <= k < len, returns one of the truncated-chunk errors, never a Container.
C2_TruncationDetected ==
    (buf \in TruncatedAfterSignature /\ Returned) => result \in TruncationErrors

\* C3: termination: the chunk loop of PngImage::new runs at most as many
\* iterations as the input has bytes (each iteration pushes one chunk).
C3_LoopBoundedByInput == Len(chunks) <= Len(buf)

\* the stored crc of chunk c is the CRC-32 of its type tag and payload
CrcVerifies(c) == c.crc = CRC32(as_bytes(c.chunk_type) \o c.data)

\* C4: checksum detection: a valid container with one payload bit changed
\* and the stored crc kept is rejected with the crc error, and no chunk of a
\* Container returned for a complete (untruncated) stream has a stored crc
\* that differs from CRC-32(type tag ++ payload).
C4_ChecksumVerified ==
    /\ (buf \in BitFlipped /\ Returned) => result = "InvalidChunkCrc"
    /\ (result = "Ok" /\ buf \notin Truncated \cup Oversized) =>
           \A i \in 1..Len(chunks) : CrcVerifies(chunks[i])

BadSignatureInput(b) == Len(b) < 8 \/ SubSeq(b, 1, 8) # PNG_SIGNATURE

\* C5: signature rejection: when the first 8 bytes of the input are not the
\* PNG signature (or there are fewer than 8), PngImage::new returns
\* InvalidFileType and no chunk field was read.
C5_SignatureRejected ==
    (BadSignatureInput(buf) /\ pc # "check_file_type") =>
        /\ pc = "returned"
        /\ result = "InvalidFileType"
        /\ chunks = <<>>
        /\ chunk_size = U32(0) /\ chunk_type = <<>>
        /\ chunk_data = <<>> /\ chunk_crc = U32(0)

C5_Witness ==
    /\ pc = "returned"
    /\ result = "InvalidFileType"
    /\ Len(buf) > 8
    /\ SubSeq(buf, 1, 4) = SubSeq(PNG_SIGNATURE, 1, 4)
    /\ SubSeq(buf, 1, 8) # PNG_SIGNATURE

\* C6: ordering invariant: a Container returned successfully is non-empty,
\* starts with IHDR, ends with IEND, and has no IEND before its last chunk.
C6_Ordering ==
    result = "Ok" =>
        /\ Len(chunks) >= 1
        /\ chunks[1].chunk_type = IHDR
        /\ chunks[Len(chunks)].chunk_type = IEND
        /\ \A i \in 1..(Len(chunks) - 1) : chunks[i].chunk_type # IEND

C6_Witness ==
    /\ result = "Ok"
    /\ Len(chunks) >= 3
    /\ chunks[1].chunk_type = IHDR
    /\ chunks[Len(chunks)].chunk_type = IEND

\* C7: chunk framing: on a valid container the chunks pushed so far are the
\* first records of the stream, in stream order, each with the record's
\* length, type, payload and trailer; the returned list has one chunk per
\* record.
C7_Framing ==
    \A rs \in ValidRecordLists :
        buf = Encode(rs) =>
            /\ Len(chunks) <= Len(rs)
            /\ chunks = SubSeq(ChunksOf(rs), 1, Len(chunks))
            /\ (Returned => result = "Ok" /\ Len(chunks) = Len(rs))

C7_Witness ==
    /\ pc = "returned"
    /\ buf \in ValidContainers
    /\ Len(chunks) = 3
    /\ chunks[2].chunk_type = IDAT
    /\ chunks[2].size = U32(3)
    /\ chunks[2].data = <<120, 1, 255>>

\* what the 13 bytes of a header payload mean
HeaderFields(p) ==
    [width              |-> [hi |-> p[1] * 256 + p[2], lo |-> p[3] * 256 + p[4]],
     height             |-> [hi |-> p[5] * 256 + p[6], lo |-> p[7] * 256 + p[8]],
     bit_depth          |-> p[9],
     color_type         |-> p[10],
     compression_method |-> p[11],
     filter_method      |-> p[12],
     interlace_method   |-> p[13]]

\* C8: header decoding: the header interpreter returns, for the 13-byte IHDR
\* payload of a valid container, width, height (big-endian) and the five
\* one-byte fields as the payload holds them.
C8_HeaderDecoded ==
    (png_info # NoInfo /\ buf \in ValidContainers) =>
        png_info = HeaderFields(chunks[1].data)

\* C9: header payload length: PngImage::new never returns a Container whose
\* first chunk's payload is not 13 bytes long.
C9_HeaderLength == result = "Ok" => Len(chunks[1].data) = 13

\* the (bit_depth, color_type) combinations the format permits
PermittedDepths(ct) ==
    IF ct = 0 THEN {1, 2, 4, 8, 16}
    ELSE IF ct = 3 THEN {1, 2, 4, 8}
    ELSE IF ct \in {2, 4, 6} THEN {8, 16}
    ELSE {}

HeaderInRange(h) ==
    /\ h.width # U32(0)
    /\ h.height # U32(0)
    /\ h.compression_method = 0
    /\ h.filter_method = 0
    /\ h.interlace_method \in {0, 1}
    /\ h.bit_depth \in PermittedDepths(h.color_type)

\* C10: header field validation: for a complete stream whose IHDR chunk has
\* a 13-byte payload and the right checksum, a HeaderInfo is returned only
\* when width and height are not 0, the compression and filter methods are
\* 0, the interlace method is 0 or 1 and (bit depth, colour type) is
\* permitted.
C10_HeaderValidated ==
    (/\ png_info # NoInfo
     /\ buf \notin Truncated
     /\ Len(chunks[1].data) = 13
     /\ CrcVerifies(chunks[1])) =>
        HeaderInRange(HeaderFields(chunks[1].data))

RECURSIVE Offset(_, _)
\* where the record of chunk i starts in a serialized stream: after the
\* signature and the records (12 bytes and a payload each) of the chunks
\* before it
Offset(cs, i) ==
    IF i <= 1 THEN 8 ELSE Offset(cs, i - 1) + 12 + Len(cs[i - 1].data)

\* the 4 crc bytes the written file holds for chunk i
WrittenCrc(i) ==
    LET o == Offset(chunks, i)
        n == Len(chunks[i].data)
    IN  SubSeq(file.bytes, o + 9 + n, o + 12 + n)

\* C11: recomputed-crc self-consistency: in the bytes the serializer writes,
\* every chunk's crc is the CRC-32 of its type tag followed by its payload,
\* whatever crc the Container held in memory (here: Containers parsed from
\* complete streams).
C11_RecomputedCrc ==
    (pc = "saved" /\ buf \notin Truncated \cup Oversized) =>
        \A i \in 1..Len(chunks) :
            WrittenCrc(i) =
                BigEndian4(CRC32(as_bytes(chunks[i].chunk_type) \o chunks[i].data))

\* C12: serializer layout: the written bytes are the 8 signature bytes and
\* then, for each chunk in list order, the big-endian length, the 4 type
\* bytes, the payload and the big-endian stored crc, and nothing else; the
\* length is 8 + the sum of (12 + payload length).
C12_Layout ==
    pc = "saved" =>
        /\ file.written
        /\ Len(file.bytes) = Offset(chunks, Len(chunks) + 1)
        /\ SubSeq(file.bytes, 1, 8) = PNG_SIGNATURE
        /\ \A i \in 1..Len(chunks) :
              LET o == Offset(chunks, i)
                  n == Len(chunks[i].data)
              IN  /\ SubSeq(file.bytes, o + 1, o + 4) = BigEndian4(chunks[i].size)
                  /\ SubSeq(file.bytes, o + 5, o + 8) = chunks[i].chunk_type
                  /\ SubSeq(file.bytes, o + 9, o + 8 + n) = chunks[i].data
                  /\ WrittenCrc(i) = BigEndian4(chunks[i].crc)

C12_Witness ==
    /\ pc = "saved"
    /\ Len(chunks) = 3
    /\ chunks[2].data = <<120, 1, 255>>
    /\ Len(file.bytes) = 8 + 25 + 15 + 12

\* C13: oversized declared length: when a chunk declares more payload bytes
\* than the buffer has left after its type tag, the payload read step fails
\* with the truncated-payload error and no chunk is pushed for the record.
C13_OversizedLengthFails ==
    [][(pc = "get_chunk_data" /\ as_usize(chunk_size) > Len(buf) - pos) =>
           (pc' = "returned" /\ result' = "InvalidChunk" /\ chunks' = chunks)]_vars

FirstChunkNotHeader == chunks # <<>> /\ chunks[1].chunk_type # IHDR

\* C14 as stated: whenever the first framed chunk is not IHDR, PngImage::new
\* fails with InvalidPngInfo.
C14_WrongHeaderType ==
    (Returned /\ FirstChunkNotHeader) => result = "InvalidPngInfo"

\* C14 as amended: when the first framed chunk is not IHDR, PngImage::new
\* returns no Container and nothing is saved; it returns InvalidPngInfo when
\* the stream framed up to an IEND chunk, and InvalidChunkType when a later
\* chunk's type tag was not text before an IEND was reached (the header is
\* looked at only after the loop).
C14_WrongHeaderTypeAmended ==
    (Returned /\ FirstChunkNotHeader) =>
        /\ result \in {"InvalidPngInfo", "InvalidChunkType"}
        /\ (result = "InvalidPngInfo" <=> chunks[Len(chunks)].chunk_type = IEND)
        /\ pc = "returned"
        /\ file = NoFile

C14_Witness ==
    /\ pc = "returned"
    /\ result = "InvalidPngInfo"
    /\ Len(chunks) = 2
    /\ chunks[1].chunk_type = IDAT
    /\ chunks[2].chunk_type = IEND

\* C15: payload ownership: every pushed chunk has len(data) = size, and its
\* data is the size bytes of the input that follow its type tag.
C15_PayloadFromInput ==
    \A i \in 1..Len(chunks) :
        LET s == Offset(chunks, i) + 8
            n == as_usize(chunks[i].size)
        IN  /\ Len(chunks[i].data) = n
            /\ n > 0 => (s + n <= Len(buf) /\ chunks[i].data = SubSeq(buf, s + 1, s + n))

\* the 4 bytes get_chunk_type sees at position p (0 where the buffer ends)
TagAt(b, p) == [i \in 1..4 |-> IF p + i <= Len(b) THEN b[p + i] ELSE 0]

\* C16: undecodable type tag: a type tag that is not UTF-8 text makes
\* PngImage::new return InvalidChunkType at that chunk, without pushing it;
\* every other 4 bytes (four NULs, control characters, encoded non-ASCII
\* characters) are taken as the tag and framing goes on.
C16_TypeTag ==
    [][pc = "get_chunk_type" =>
          IF TagAt(buf, pos) \in UndecodableTags
          THEN /\ pc' = "returned"
               /\ result' = "InvalidChunkType"
               /\ chunks' = chunks
               /\ file' = NoFile
          ELSE /\ pc' = "get_chunk_data"
               /\ chunk_type' = TagAt(buf, pos)
               /\ result' = "Pending"]_vars

C16_Witness ==
    /\ pc = "returned"
    /\ result = "InvalidChunkType"
    /\ Len(chunks) = 1
    /\ chunks[1].chunk_type = <<0, 0, 0, 0>>
    /\ TagAt(buf, pos - 4) \in UndecodableTags

\* C17: forward-only bounded cursor: after the signature check the position
\* never decreases and never passes the end of the buffer, and the framing
\* steps that succeed advance it by 4, 4, the declared length and 4.
C17_Cursor ==
    [][pc # "check_file_type" =>
          /\ pos' >= pos
          /\ pos' <= Len(buf)
          /\ (pc = "get_chunk_size" /\ pc' = "get_chunk_type") => pos' = pos + 4
          /\ (pc = "get_chunk_type" /\ pc' = "get_chunk_data") => pos' = pos + 4
          /\ (pc = "get_chunk_data" /\ pc' = "get_chunk_crc") =>
                 pos' = pos + as_usize(chunk_size)
          /\ (pc = "get_chunk_crc" /\ pc' = "push_chunk") => pos' = pos + 4]_vars

\* C18: the parser stops at the first IEND chunk and reads nothing past its
\* crc: for a valid container B followed by more bytes, PngImage::new returns
\* the chunk list of B and save_image writes B, without the bytes after it.
C18_StopsAtIend ==
    \A rs \in ValidRecordLists :
        LET B == Encode(rs)
        IN  (Len(buf) > Len(B) /\ SubSeq(buf, 1, Len(B)) = B) =>
                /\ pos <= Len(B)
                /\ (Returned => result = "Ok" /\ chunks = ChunksOf(rs))
                /\ (pc = "saved" => file.bytes = B)

C18_Witness ==
    /\ pc = "saved"
    /\ buf \in Trailing
    /\ Len(buf) = Len(file.bytes) + 12
    /\ file.bytes = SubSeq(buf, 1, Len(file.bytes))
    /\ file.bytes \in ValidContainers
    /\ Len(chunks) = 3

====
